---- MODULE Spec2Model ----
(***************************************************************************)
(* Login-attempt state machine of lib/auth.ts: the in-memory rate limiter  *)
(* (checkRateLimit), the account lockout helpers (isAccountLocked,         *)
(* handleFailedLogin, handleSuccessfulLogin) and the credentials           *)
(* provider's authorize callback that orchestrates them.                   *)
(*                                                                         *)
(* Time is counted in minutes.  Strings are sequences of one-character     *)
(* strings.  The user table is a function from stored e-mail to record.    *)
(*                                                                         *)
(* Spec and SpecLock handle one request at a time, authorize being one     *)
(* action: Spec with two client addresses over the instants around one     *)
(* rate-limit window, SpecLock with one address over the instants around   *)
(* one lockout.  SpecConc runs overlapping requests, one action per store  *)
(* call, on an account that has failed InitialAttempts times.              *)
(***************************************************************************)
EXTENDS Integers, Sequences, FiniteSets, TLC

\* ------------------------------------------------------------------------
\* ACCOUNT_LOCKOUT configuration
\* ------------------------------------------------------------------------
MAX_ATTEMPTS == 10
LOCKOUT_DURATION_HOURS == 1
RATE_LIMIT_WINDOW_MINUTES == 5
RATE_LIMIT_MAX_ATTEMPTS == 5

\* LoginSchema password length limits
PASSWORD_MIN == 1
PASSWORD_MAX == 128

\* a nullable DateTime column that holds no value
Null == -1

\* ------------------------------------------------------------------------
\* Bounds of the model
\* ------------------------------------------------------------------------
\* the instants (minutes) at which requests arrive: the start, the last
\* instant and the first instant after a rate-limit window that began at 0
Instants == {0, 5, 10}
\* the same for the lockout runs: two windows in which to fail ten times,
\* then the last instant before, the instant of and an instant after the end
\* of a lockout that began at 10
LockInstants == {0, 10, 60, 70, 80}
\* checkRateLimit calls followed per key and window
MaxCalls == 6
\* overlapping requests
NReq == 3
\* failed attempts the account has behind it when the overlapping requests
\* arrive
InitialAttempts == 8
\* instants of the overlapping requests: within a lockout that began at 0,
\* and at its end
ConcInstants == {0, 60}

\* ------------------------------------------------------------------------
\* Strings
\* ------------------------------------------------------------------------
Letters == {"a", "b", "x", "c", "o", "A"}

Lower(ch) == IF ch = "A" THEN "a" ELSE ch

toLowerCase(s) == [i \in 1..Len(s) |-> Lower(s[i])]

RECURSIVE TrimStart(_)
TrimStart(s) == IF s # <<>> /\ Head(s) = " " THEN TrimStart(Tail(s)) ELSE s

RECURSIVE TrimEnd(_)
TrimEnd(s) ==
    IF s # <<>> /\ s[Len(s)] = " " THEN TrimEnd(SubSeq(s, 1, Len(s) - 1)) ELSE s

trim(s) == TrimEnd(TrimStart(s))

\* positions of character ch in s
Positions(s, ch) == {i \in 1..Len(s) : s[i] = ch}

\* z.string().email(): one "@", a local part of letters and dots that neither
\* starts nor ends with a dot and has no "..", and a domain of one or more
\* dot-terminated labels followed by a top-level label of two or more letters
IsEmail(s) ==
    /\ Cardinality(Positions(s, "@")) = 1
    /\ LET at == CHOOSE i \in Positions(s, "@") : TRUE
           local == SubSeq(s, 1, at - 1)
           domain == SubSeq(s, at + 1, Len(s))
           dots == Positions(domain, ".")
       IN  /\ Len(local) >= 1
           /\ \A i \in 1..Len(local) : local[i] \in Letters \cup {"."}
           /\ local[1] # "." /\ local[Len(local)] # "."
           /\ \A i \in 1..(Len(local) - 1) : ~(local[i] = "." /\ local[i + 1] = ".")
           /\ \A i \in 1..Len(domain) : domain[i] \in Letters \cup {"."}
           /\ dots # {}
           /\ domain[1] # "."
           /\ \A i \in 1..(Len(domain) - 1) : ~(domain[i] = "." /\ domain[i + 1] = ".")
           /\ LET lastDot == CHOOSE i \in dots : \A j \in dots : j <= i
              IN  Len(domain) - lastDot >= 2

\* ------------------------------------------------------------------------
\* Inputs
\* ------------------------------------------------------------------------
AliceEmail == <<"a", "@", "x", ".", "c", "o">>
BobEmail == <<"b", "@", "x", ".", "c", "o">>

GoodPassword == <<"a", "b">>
BadPassword == <<"x">>

\* resolved client address: a forwarded address, or the literal "unknown"
IPs == {"10.0.0.1", "unknown"}
\* the lockout runs come from one address
LockIPs == {"unknown"}

\* ------------------------------------------------------------------------
\* LoginSchema.safeParse
\* ------------------------------------------------------------------------
LoginSchema(credentials) ==
    LET e == credentials.email
        p == credentials.password
        emailOk == Len(e) >= 1 /\ IsEmail(e)
        passwordOk == Len(p) >= PASSWORD_MIN /\ Len(p) <= PASSWORD_MAX
    IN  [ success |-> emailOk /\ passwordOk,
          data |-> [email |-> trim(toLowerCase(e)), password |-> p] ]

EMAIL_MAX == 255

\* EmailSchema.safeParse
EmailSchema(input) ==
    [ success |-> Len(input) >= 1 /\ IsEmail(input) /\ Len(input) <= EMAIL_MAX,
      data |-> trim(toLowerCase(input)) ]

\* bcrypt.compare: the hash matches exactly the plaintext it was made from
bcryptCompare(password, passwordHash) == passwordHash = <<"$2a$12$">> \o password

\* ------------------------------------------------------------------------
\* State
\* ------------------------------------------------------------------------
VARIABLES
    now,             \* Date.now(), in minutes
    users,           \* the user table, by stored e-mail
    rateLimitStore,  \* the rateLimitStore map
    resp,            \* what the latest authorize call did and returned
    windowCalls,     \* history: checkRateLimit calls per key since its window began
    reqs,            \* the authorize calls in flight: position and locals
    token,           \* the session token the browser holds, or NoToken
    access,          \* what the latest request past sign-in asked and got
    projectMembers,  \* the rows of project_members: <<user id, project>>
    seedRuns,        \* the runs of the seed script: position and locals
    userRows         \* the rows of users the seed script sees: id, email, role

vars == <<now, users, rateLimitStore, resp, windowCalls, reqs,
         token, access, projectMembers, seedRuns, userRows>>

\* Map.set
MapSet(m, k, v) == [x \in DOMAIN m \cup {k} |-> IF x = k THEN v ELSE m[x]]

RateKey(ip) == "login_" \o ip

\* ------------------------------------------------------------------------
\* checkRateLimit: [ok, store] = the value returned and the map afterwards
\* ------------------------------------------------------------------------
\* checkRateLimit with the limit test off by one (> for >=)
checkRateLimit_OffByOne(store, ip, t) ==
    LET key == RateKey(ip) IN
    IF key \notin DOMAIN store \/ t > store[key].resetTime
    THEN [ ok |-> TRUE,
           store |-> MapSet(store, key,
                        [attempts |-> 1,
                         resetTime |-> t + RATE_LIMIT_WINDOW_MINUTES]) ]
    ELSE IF store[key].attempts > RATE_LIMIT_MAX_ATTEMPTS
    THEN [ ok |-> FALSE, store |-> store ]
    ELSE [ ok |-> TRUE,
           store |-> MapSet(store, key,
                        [attempts |-> store[key].attempts + 1,
                         resetTime |-> store[key].resetTime]) ]

\* checkRateLimit with a denied call restarting the window
checkRateLimit_DenyExtends(store, ip, t) ==
    LET key == RateKey(ip) IN
    IF key \notin DOMAIN store \/ t > store[key].resetTime
    THEN [ ok |-> TRUE,
           store |-> MapSet(store, key,
                        [attempts |-> 1,
                         resetTime |-> t + RATE_LIMIT_WINDOW_MINUTES]) ]
    ELSE IF store[key].attempts >= RATE_LIMIT_MAX_ATTEMPTS
    THEN [ ok |-> FALSE,
           store |-> MapSet(store, key,
                        [attempts |-> store[key].attempts,
                         resetTime |-> t + RATE_LIMIT_WINDOW_MINUTES]) ]
    ELSE [ ok |-> TRUE,
           store |-> MapSet(store, key,
                        [attempts |-> store[key].attempts + 1,
                         resetTime |-> store[key].resetTime]) ]

checkRateLimit(store, ip, t) ==
    LET key == RateKey(ip) IN
    IF key \notin DOMAIN store \/ t > store[key].resetTime
    THEN [ ok |-> TRUE,
           store |-> MapSet(store, key,
                        [attempts |-> 1,
                         resetTime |-> t + RATE_LIMIT_WINDOW_MINUTES]) ]
    ELSE IF store[key].attempts >= RATE_LIMIT_MAX_ATTEMPTS
    THEN [ ok |-> FALSE, store |-> store ]
    ELSE [ ok |-> TRUE,
           store |-> MapSet(store, key,
                        [attempts |-> store[key].attempts + 1,
                         resetTime |-> store[key].resetTime]) ]

\* ------------------------------------------------------------------------
\* Lockout helpers.  Each takes the user table and returns the table after
\* its db.user.update, if any.
\* ------------------------------------------------------------------------
\* db.user.update({ where: { email }, data })
UpdateUser(tbl, email, data) == [tbl EXCEPT ![email] = data @@ tbl[email]]

\* the data of isAccountLocked's update
ExpiredLockData == [failedLoginAttempts |-> 0, lockedUntil |-> Null]

\* the lock test with the comparison turned round
LockedNow_Inverted(user, t) == user.lockedUntil # Null /\ t > user.lockedUntil

\* the test of line 31 on the row read by findUnique
LockedNow(user, t) == user.lockedUntil # Null /\ t < user.lockedUntil

\* the test of line 36
LockExpired(user, t) == user.lockedUntil # Null /\ t >= user.lockedUntil

\* isAccountLocked clearing every expired lock of the table, whatever the
\* email it was asked about
isAccountLocked_Sweep(tbl, email, t) ==
    LET swept == [e \in DOMAIN tbl |->
                    IF LockExpired(tbl[e], t)
                    THEN ExpiredLockData @@ tbl[e] ELSE tbl[e]]
    IN
    IF email \notin DOMAIN tbl
    THEN [ locked |-> FALSE, users |-> swept, writes |-> 0 ]
    ELSE IF LockedNow(tbl[email], t)
    THEN [ locked |-> TRUE, users |-> tbl, writes |-> 0 ]
    ELSE IF LockExpired(tbl[email], t)
    THEN [ locked |-> FALSE,
           users |-> UpdateUser(tbl, email, ExpiredLockData),
           writes |-> 1 ]
    ELSE [ locked |-> FALSE, users |-> tbl, writes |-> 0 ]

\* isAccountLocked clearing the expired lock but not the counter
isAccountLocked_KeepsCounter(tbl, email, t) ==
    IF email \notin DOMAIN tbl
    THEN [ locked |-> FALSE, users |-> tbl, writes |-> 0 ]
    ELSE IF LockedNow(tbl[email], t)
    THEN [ locked |-> TRUE, users |-> tbl, writes |-> 0 ]
    ELSE IF LockExpired(tbl[email], t)
    THEN [ locked |-> FALSE,
           users |-> [tbl EXCEPT ![email].lockedUntil = Null],
           writes |-> 1 ]
    ELSE [ locked |-> FALSE, users |-> tbl, writes |-> 0 ]

isAccountLocked(tbl, email, t) ==
    IF email \notin DOMAIN tbl
    THEN [ locked |-> FALSE, users |-> tbl, writes |-> 0 ]
    ELSE IF LockedNow(tbl[email], t)
    THEN [ locked |-> TRUE, users |-> tbl, writes |-> 0 ]
    ELSE IF LockExpired(tbl[email], t)
    THEN [ locked |-> FALSE,
           users |-> UpdateUser(tbl, email, ExpiredLockData),
           writes |-> 1 ]
    ELSE [ locked |-> FALSE, users |-> tbl, writes |-> 0 ]

\* handleFailedLogin locking one failure late (> for >=)
FailedLoginData_LateLock(readAttempts, t) ==
    LET newFailedAttempts == readAttempts + 1
        shouldLockAccount == newFailedAttempts > MAX_ATTEMPTS
    IN  [ failedLoginAttempts |-> newFailedAttempts,
          lockedUntil |-> IF shouldLockAccount
                          THEN t + LOCKOUT_DURATION_HOURS * 60
                          ELSE Null ]

\* handleFailedLogin locking one failure early
FailedLoginData_EarlyLock(readAttempts, t) ==
    LET newFailedAttempts == readAttempts + 1
        shouldLockAccount == newFailedAttempts >= MAX_ATTEMPTS - 1
    IN  [ failedLoginAttempts |-> newFailedAttempts,
          lockedUntil |-> IF shouldLockAccount
                          THEN t + LOCKOUT_DURATION_HOURS * 60
                          ELSE Null ]

\* the data of handleFailedLogin's update, from the attempts it read
FailedLoginData(readAttempts, t) ==
    LET newFailedAttempts == readAttempts + 1
        shouldLockAccount == newFailedAttempts >= MAX_ATTEMPTS
    IN  [ failedLoginAttempts |-> newFailedAttempts,
          lockedUntil |-> IF shouldLockAccount
                          THEN t + LOCKOUT_DURATION_HOURS * 60
                          ELSE Null ]

handleFailedLogin(tbl, email, t) ==
    IF email \notin DOMAIN tbl
    THEN tbl
    ELSE UpdateUser(tbl, email,
                    FailedLoginData(tbl[email].failedLoginAttempts, t))

\* handleSuccessfulLogin leaving the failed-attempt counter alone
handleSuccessfulLogin_KeepsCounter(tbl, email, t) ==
    [tbl EXCEPT ![email].lockedUntil = Null,
                ![email].lastLogin = t]

handleSuccessfulLogin(tbl, email, t) ==
    [tbl EXCEPT ![email].failedLoginAttempts = 0,
                ![email].lockedUntil = Null,
                ![email].lastLogin = t]

\* ------------------------------------------------------------------------
\* authorize, run to completion: the table and the map afterwards, the value
\* returned (ret: a user id, or Null) and what the call did on the way
\* ------------------------------------------------------------------------
Outcome(tbl, store, ip, ret, path, rateChecked, reads, writes, compared) ==
    [ users |-> tbl,
      store |-> store,
      resp |-> [ ip |-> ip, ret |-> ret, path |-> path,
                 rateChecked |-> rateChecked,
                 reads |-> reads, writes |-> writes, compared |-> compared ] ]

\* the denied request counted as a failed login of the account it names
rateLimitExceeded_CountsFailure(tbl, store, t, ip, email) ==
    Outcome(handleFailedLogin(tbl, email, t), store, ip, Null, "rate_limited",
            TRUE, 1, 1, FALSE)

\* lines 155-158: the limiter denied the request
rateLimitExceeded(tbl, store, t, ip, email) ==
    Outcome(tbl, store, ip, Null, "rate_limited", TRUE, 0, 0, FALSE)

\* lines 208-211: a store call threw and the catch block swallowed it
authenticationError(tbl, store, ip) ==
    Outcome(tbl, store, ip, Null, "error", TRUE, 0, 0, FALSE)

\* the unknown email answered with a value of its own
userNotFound_Reveals(tbl, store, ip, writes) ==
    Outcome(tbl, store, ip, 0, "no_user", TRUE, 2, writes, FALSE)

\* lines 180-185: findUnique found no row; after the fixed delay, null
userNotFound(tbl, store, ip, writes) ==
    Outcome(tbl, store, ip, Null, "no_user", TRUE, 2, writes, FALSE)

\* lines 160-199: the part of authorize that talks to the user table
verifyCredentials(tbl, store, t, ip, email, password) ==
    LET lock == isAccountLocked(tbl, email, t) IN
    IF lock.locked
    THEN Outcome(lock.users, store, ip, Null, "account_locked",
                 TRUE, 1, lock.writes, FALSE)
    ELSE IF email \notin DOMAIN lock.users
    THEN userNotFound(lock.users, store, ip, lock.writes)
    ELSE IF ~bcryptCompare(password, lock.users[email].passwordHash)
    THEN Outcome(handleFailedLogin(lock.users, email, t), store, ip, Null,
                 "bad_password", TRUE, 3, lock.writes + 1, TRUE)
    ELSE Outcome(handleSuccessfulLogin(lock.users, email, t), store, ip,
                 lock.users[email].id, "success", TRUE, 2, lock.writes + 1, TRUE)

authorizeResult(tbl, store, t, ip, credentials, dbOk) ==
    LET validatedFields == LoginSchema(credentials) IN
    IF ~validatedFields.success
    THEN Outcome(tbl, store, ip, Null, "invalid_input", FALSE, 0, 0, FALSE)
    ELSE
    LET email == validatedFields.data.email
        password == validatedFields.data.password
        limit == checkRateLimit(store, ip, t)
    IN
    IF ~limit.ok
    THEN rateLimitExceeded(tbl, limit.store, t, ip, email)
    ELSE IF ~dbOk
    THEN authenticationError(tbl, limit.store, ip)
    ELSE verifyCredentials(tbl, limit.store, t, ip, email, password)

\* ------------------------------------------------------------------------
\* Roles and permissions (lib/auth-utils.ts)
\* ------------------------------------------------------------------------
Roles == {"EMPLOYEE", "ADMIN", "ROOT_ADMIN"}

\* the ranks of ADMIN and ROOT_ADMIN exchanged
roleHierarchy_AdminOnTop == [EMPLOYEE |-> 1, ADMIN |-> 3, ROOT_ADMIN |-> 2]

roleHierarchy == [EMPLOYEE |-> 1, ADMIN |-> 2, ROOT_ADMIN |-> 3]

hasRoleOrHigher(userRole, requiredRole) ==
    roleHierarchy[userRole] >= roleHierarchy[requiredRole]

basePermissions ==
    [ canViewDashboard |-> TRUE,
      canAccessProjects |-> FALSE,
      canCreateProjects |-> FALSE,
      canManageUsers |-> FALSE,
      canAccessSystemSettings |-> FALSE,
      canDeleteProjects |-> FALSE ]

\* r with the fields of basePermissions it does not set
Spread(r) == r @@ basePermissions

\* getUserPermissions giving ADMIN the system settings too
getUserPermissions_AdminSettings(role) ==
    IF role \in {"ROOT_ADMIN", "ADMIN"}
    THEN Spread([ canAccessProjects |-> TRUE,
                  canCreateProjects |-> TRUE,
                  canManageUsers |-> TRUE,
                  canAccessSystemSettings |-> TRUE,
                  canDeleteProjects |-> TRUE ])
    ELSE IF role = "EMPLOYEE"
    THEN Spread([ canAccessProjects |-> TRUE ])
    ELSE basePermissions

\* getUserPermissions leaving user management out of the ROOT_ADMIN case
getUserPermissions_RootNoUsers(role) ==
    IF role = "ROOT_ADMIN"
    THEN Spread([ canAccessProjects |-> TRUE,
                  canCreateProjects |-> TRUE,
                  canAccessSystemSettings |-> TRUE,
                  canDeleteProjects |-> TRUE ])
    ELSE IF role = "ADMIN"
    THEN Spread([ canAccessProjects |-> TRUE,
                  canCreateProjects |-> TRUE,
                  canManageUsers |-> TRUE,
                  canDeleteProjects |-> TRUE ])
    ELSE IF role = "EMPLOYEE"
    THEN Spread([ canAccessProjects |-> TRUE ])
    ELSE basePermissions

getUserPermissions(role) ==
    IF role = "ROOT_ADMIN"
    THEN Spread([ canAccessProjects |-> TRUE,
                  canCreateProjects |-> TRUE,
                  canManageUsers |-> TRUE,
                  canAccessSystemSettings |-> TRUE,
                  canDeleteProjects |-> TRUE ])
    ELSE IF role = "ADMIN"
    THEN Spread([ canAccessProjects |-> TRUE,
                  canCreateProjects |-> TRUE,
                  canManageUsers |-> TRUE,
                  canDeleteProjects |-> TRUE ])
    ELSE IF role = "EMPLOYEE"
    THEN Spread([ canAccessProjects |-> TRUE ])
    ELSE basePermissions

\* ------------------------------------------------------------------------
\* Sessions (authOptions.session, authOptions.jwt, the jwt and session
\* callbacks).  Ages are kept in minutes, as the clock is.
\* ------------------------------------------------------------------------
SESSION_MAX_AGE == (24 * 60 * 60) \div 60

\* the refresh threshold at half the session lifetime
SESSION_UPDATE_AGE_Half == SESSION_MAX_AGE \div 2

SESSION_UPDATE_AGE == (60 * 60) \div 60

\* the token lifetime of one hour
JWT_MAX_AGE_Hour == (60 * 60) \div 60

JWT_MAX_AGE == (24 * 60 * 60) \div 60

NoToken == [id |-> Null, role |-> "none", iat |-> Null, exp |-> Null]

NoUser == [id |-> Null, role |-> "none"]

\* callbacks.jwt reading the role again from the users table on every call
jwt_RereadsRole(tok, user) ==
    IF user # NoUser
    THEN [tok EXCEPT !.role = user.role, !.id = user.id]
    ELSE IF \E e \in DOMAIN users : users[e].id = tok.id
    THEN [tok EXCEPT !.role = users[CHOOSE e \in DOMAIN users : users[e].id = tok.id].role]
    ELSE tok

\* callbacks.jwt: role and id are taken from the user row at sign-in only
jwt(tok, user) ==
    IF user # NoUser
    THEN [tok EXCEPT !.role = user.role, !.id = user.id]
    ELSE tok

\* callbacks.session: what the application sees of the token
session(tok) == [id |-> tok.id, role |-> tok.role]

\* the token encoded at time t with lifetime maxAge
encode(tok, t, maxAge) == [tok EXCEPT !.iat = t, !.exp = t + maxAge]

\* is the token accepted at time t?
Valid(tok, t) == tok # NoToken /\ t <= tok.exp

\* is the token due for a refresh at time t?
DueForUpdate(tok, t) == t - tok.iat > SESSION_UPDATE_AGE

\* the token a request at time t is served with
decode(tok, t) == IF Valid(tok, t) THEN tok ELSE NoToken

\* the token after a read of the session at time t
refresh(tok, t) ==
    IF ~Valid(tok, t) THEN NoToken
    ELSE IF DueForUpdate(tok, t) THEN encode(jwt(tok, NoUser), t, SESSION_MAX_AGE)
    ELSE tok

\* ------------------------------------------------------------------------
\* Route protection (middleware.ts).  A path is the sequence of its
\* characters.
\* ------------------------------------------------------------------------
startsWith(s, prefix) ==
    Len(s) >= Len(prefix) /\ SubSeq(s, 1, Len(prefix)) = prefix


PrefixAuth == <<"/", "a", "u", "t", "h", "/">>
PrefixAdmin == <<"/", "a", "d", "m", "i", "n">>
PrefixSystem == <<"/", "s", "y", "s", "t", "e", "m">>
PrefixApi == <<"/", "a", "p", "i", "/">>
PrefixApiAuth == <<"/", "a", "p", "i", "/", "a", "u", "t", "h", "/">>
PrefixApiAdmin == <<"/", "a", "p", "i", "/", "a", "d", "m", "i", "n", "/">>

PathRoot == <<"/">>
PathSignIn == <<"/", "a", "u", "t", "h", "/", "s", "i", "g", "n", "i", "n">>
PathApiAuth == <<"/", "a", "p", "i", "/", "a", "u", "t", "h", "/", "s", "e", "s", "s", "i", "o", "n">>
PathUnauthorized == <<"/", "u", "n", "a", "u", "t", "h", "o", "r", "i", "z", "e", "d">>
PathDashboard == <<"/", "d", "a", "s", "h", "b", "o", "a", "r", "d">>
PathAdmin == <<"/", "a", "d", "m", "i", "n">>
PathAdminUsers == <<"/", "a", "d", "m", "i", "n", "/", "u", "s", "e", "r", "s">>
PathSystem == <<"/", "s", "y", "s", "t", "e", "m", "/", "s", "e", "t", "t", "i", "n", "g", "s">>
PathApiAdmin == <<"/", "a", "p", "i", "/", "a", "d", "m", "i", "n", "/", "u", "s", "e", "r", "s">>
PathApiProjects == <<"/", "a", "p", "i", "/", "p", "r", "o", "j", "e", "c", "t", "s">>
PathProjects == <<"/", "p", "r", "o", "j", "e", "c", "t", "s">>

Paths ==
    { PathRoot,
      PathSignIn,
      PathApiAuth,
      PathUnauthorized,
      PathDashboard,
      PathAdmin,
      PathAdminUsers,
      PathSystem,
      PathApiAdmin,
      PathApiProjects,
      PathProjects }

AdminRoles == {"ROOT_ADMIN", "ADMIN"}

\* callbacks.authorized
authorized(tok, pathname) ==
    IF \/ pathname = PathRoot
       \/ startsWith(pathname, PrefixAuth)
       \/ startsWith(pathname, PrefixApiAuth)
       \/ pathname = PathUnauthorized
    THEN TRUE
    ELSE tok # NoToken

\* function middleware(req)
middleware(tok, pathname) ==
    IF startsWith(pathname, PrefixAuth) /\ tok = NoToken
    THEN "next"
    ELSE IF startsWith(pathname, PrefixAuth) /\ tok # NoToken
    THEN "redirect:/dashboard"
    ELSE IF /\ startsWith(pathname, PrefixAdmin)
            /\ (tok = NoToken \/ tok.role \notin AdminRoles)
    THEN "redirect:/unauthorized"
    ELSE IF /\ startsWith(pathname, PrefixSystem)
            /\ (tok = NoToken \/ tok.role # "ROOT_ADMIN")
    THEN "redirect:/unauthorized"
    ELSE IF /\ startsWith(pathname, PrefixApi)
            /\ ~startsWith(pathname, PrefixApiAuth)
    THEN IF tok = NoToken
         THEN "401"
         ELSE IF /\ startsWith(pathname, PrefixApiAdmin)
                 /\ tok.role \notin AdminRoles
         THEN "403"
         ELSE "next"
    ELSE "next"

\* withAuth(middleware, { callbacks: { authorized } }): the function runs
\* for the requests the callback lets in, the others go to the sign-in page
withAuth(tok, pathname) ==
    IF authorized(tok, pathname)
    THEN middleware(tok, pathname)
    ELSE "redirect:signin"

\* ------------------------------------------------------------------------
\* Role guards for server components and API routes.  The argument
\* requiredRole is a UserRole or a UserRole[]: Single and Many tell the two
\* apart, as Array.isArray does, and a single role is kept in a field of
\* the same shape as a list.  The session is NoUser when there is none.
\* ------------------------------------------------------------------------
Single(role) == [isArray |-> FALSE, value |-> <<role>>]
Many(roles) == [isArray |-> TRUE, value |-> roles]

\* Array.isArray(requiredRole) ? requiredRole : [requiredRole]
allowedRoles(requiredRole) ==
    IF requiredRole.isArray THEN requiredRole.value ELSE <<requiredRole.value[1]>>

\* Array.prototype.includes
includes(arr, x) == \E i \in 1..Len(arr) : arr[i] = x

\* the session the server reads at time t with this token
getCurrentSession(tok, t) == IF Valid(tok, t) THEN session(tok) ELSE NoUser

hasRole_ByRank(userRole, requiredRole) ==
    \E i \in 1..Len(allowedRoles(requiredRole)) :
        hasRoleOrHigher(userRole, allowedRoles(requiredRole)[i])

hasRole(userRole, requiredRole) ==
    includes(allowedRoles(requiredRole), userRole)

isAdmin_AdminOnly(userRole) == hasRole(userRole, Many(<<"ADMIN">>))

isAdmin(userRole) == hasRole(userRole, Many(<<"ROOT_ADMIN", "ADMIN">>))

isRootAdmin(userRole) == userRole = "ROOT_ADMIN"

\* redirect() does not return: the result names the page, or "none" with the
\* user the caller goes on with
requireAuth(sess) ==
    IF sess = NoUser
    THEN [redirect |-> "/auth/signin", user |-> NoUser]
    ELSE [redirect |-> "none", user |-> sess]

requireRole(sess, requiredRole) ==
    IF requireAuth(sess).redirect # "none"
    THEN requireAuth(sess)
    ELSE IF ~includes(allowedRoles(requiredRole), requireAuth(sess).user.role)
    THEN [redirect |-> "/unauthorized", user |-> NoUser]
    ELSE requireAuth(sess)

requireAdmin(sess) == requireRole(sess, Many(<<"ROOT_ADMIN", "ADMIN">>))

requireRootAdmin(sess) == requireRole(sess, Single("ROOT_ADMIN"))

validateApiSession(sess) ==
    IF sess = NoUser
    THEN [user |-> NoUser, error |-> "Authentication required", status |-> 401]
    ELSE [user |-> sess, error |-> "null", status |-> 200]

validateApiRole(sess, requiredRole) ==
    IF validateApiSession(sess).error # "null"
    THEN validateApiSession(sess)
    ELSE IF ~includes(allowedRoles(requiredRole), validateApiSession(sess).user.role)
    THEN [user |-> NoUser, error |-> "Insufficient permissions", status |-> 403]
    ELSE [user |-> validateApiSession(sess).user, error |-> "null", status |-> 200]

\* /api/admin/users: the check both handlers open with; 0 stands for the
\* handler going on to its work
usersRouteCheck(sess) ==
    IF sess = NoUser
    THEN 401
    ELSE IF sess.role # "ROOT_ADMIN" /\ sess.role # "ADMIN"
    THEN 403
    ELSE 0

POST(sess) == usersRouteCheck(sess)

GET(sess) == usersRouteCheck(sess)

\* the required-role arguments the guards are called with
RequiredRoles ==
    { Single(r) : r \in Roles } \cup { Many(<<"ROOT_ADMIN", "ADMIN">>) }

AdminGuards == {"isAdmin", "requireAdmin", "POST", "GET"}
RootGuards == {"isRootAdmin", "requireRootAdmin"}
RoleGuards == {"hasRole", "requireRole", "validateApiRole"}

\* ------------------------------------------------------------------------
\* Projects (prisma/schema.prisma: Project, ProjectMember)
\* ------------------------------------------------------------------------
Projects == {"p1", "p2"}

\* the rows of project_members the runs start from
MemberTables == { {}, {<<1, "p1">>} }

NoAccess == [kind |-> "none"]


\* ------------------------------------------------------------------------
\* The seed script (prisma/enhanced-seed.ts)
\* ------------------------------------------------------------------------
maxRetries == 3

ADMIN_EMAIL == "admin@company.com"

NSeed == 2

SeedRuns == 1..NSeed

\* a run of main() that has not begun
IdleRun ==
    [ pc |-> "idle", retries |-> 0, attempts |-> 0, waits |-> 0,
      inTx |-> FALSE, action |-> "none", error |-> "none" ]

\* the catch block giving up one failure late: after the third failure it
\* waits once more and the loop ends without an error
connectFailed_GivesUpLate(retries) ==
    LET n == retries + 1 IN
    [ retries |-> n,
      throws |-> n > maxRetries,
      wait |-> IF n > maxRetries THEN 0 ELSE 2^n * 1000 ]

\* verifyDatabaseConnection, the catch block: the new retries, whether it
\* throws, and the wait (ms) before the next attempt
connectFailed(retries) ==
    LET n == retries + 1 IN
    [ retries |-> n,
      throws |-> n = maxRetries,
      wait |-> IF n = maxRetries THEN 0 ELSE 2^n * 1000 ]

\* findFirst({ where: { role: ROOT_ADMIN, email: adminEmail } })
findRootAdmin(rows) ==
    \E row \in rows : row.role = "ROOT_ADMIN" /\ row.email = ADMIN_EMAIL

\* user.create without the unique index on email
createUser_NoUniqueEmail(rows, row) ==
    [ ok |-> TRUE, rows |-> rows \cup {row} ]

\* user.create: the unique index on email refuses a second row
createUser(rows, row) ==
    IF \E other \in rows : other.email = row.email
    THEN [ ok |-> FALSE, rows |-> rows ]
    ELSE [ ok |-> TRUE, rows |-> rows \cup {row} ]

\* the users tables the seed runs start from: empty, the Root Admin already
\* there, the admin e-mail taken by an account of another role
SeedTables ==
    { {},
      {[id |-> 0, email |-> ADMIN_EMAIL, role |-> "ROOT_ADMIN"]},
      {[id |-> 0, email |-> ADMIN_EMAIL, role |-> "EMPLOYEE"]} }

\* ------------------------------------------------------------------------
\* Initial state: the seeded account, an empty rate-limit map
\* ------------------------------------------------------------------------
NewUser(id, password, role) ==
    [ id |-> id,
      passwordHash |-> <<"$2a$12$">> \o password,
      role |-> role,
      failedLoginAttempts |-> 0,
      lockedUntil |-> Null,
      lastLogin |-> Null ]

Slots == 1..NReq

\* an authorize call that has not begun
IdleReq ==
    [ pc |-> "idle", email |-> <<>>, password |-> <<>>,
      found |-> FALSE, val |-> Null, path |-> "none", ret |-> Null ]

NoResp ==
    [ ip |-> "", ret |-> Null, path |-> "none", rateChecked |-> FALSE,
      reads |-> 0, writes |-> 0, compared |-> FALSE ]

Init ==
    /\ now = 0
    /\ users = (AliceEmail :> NewUser(1, GoodPassword, "EMPLOYEE"))
    /\ rateLimitStore = << >>
    /\ resp = NoResp
    /\ windowCalls = [ip \in IPs |-> 0]
    /\ reqs = [r \in Slots |-> IdleReq]
    /\ token = NoToken
    /\ access = NoAccess
    /\ projectMembers = {}
    /\ seedRuns = [r \in SeedRuns |-> IdleRun]
    /\ userRows = {}

\* ------------------------------------------------------------------------
\* Actions
\* ------------------------------------------------------------------------
\* does a checkRateLimit(ip) at time t fall in the window the map holds?
InWindow(store, ip, t) ==
    RateKey(ip) \in DOMAIN store /\ t <= store[RateKey(ip)].resetTime

\* one login request, handled to completion
authorize(ip, credentials, dbOk) ==
    LET r == authorizeResult(users, rateLimitStore, now, ip, credentials, dbOk)
        calls == IF InWindow(rateLimitStore, ip, now)
                 THEN windowCalls[ip] + 1 ELSE 1
    IN  /\ r.resp.rateChecked => calls <= MaxCalls
        /\ users' = r.users
        /\ rateLimitStore' = r.store
        /\ resp' = r.resp
        /\ windowCalls' = IF r.resp.rateChecked
                          THEN [windowCalls EXCEPT ![ip] = calls]
                          ELSE windowCalls
        /\ UNCHANGED <<now, reqs, token, access, projectMembers, seedRuns, userRows>>

\* time passes, to the next instant of S
Tick(S) ==
    /\ \E t \in S : t > now
    /\ now' = CHOOSE t \in S : t > now /\ \A u \in S : u > now => t <= u
    /\ UNCHANGED <<users, rateLimitStore, resp, windowCalls, reqs, token, access, projectMembers, seedRuns, userRows>>

\* the requests sent: well-formed ones for an account and for no account,
\* with the right and a wrong password, and malformed ones
Credentials ==
    { [email |-> AliceEmail, password |-> GoodPassword],
      [email |-> AliceEmail, password |-> BadPassword],
      [email |-> BobEmail, password |-> GoodPassword],
      [email |-> <<"a">>, password |-> GoodPassword],
      [email |-> AliceEmail, password |-> <<>>] }

Next ==
    \/ \E ip \in IPs, c \in Credentials, dbOk \in BOOLEAN : authorize(ip, c, dbOk)
    \/ Tick(Instants)

Spec == Init /\ [][Next]_vars

NextLock ==
    \/ \E ip \in LockIPs, c \in Credentials, dbOk \in BOOLEAN : authorize(ip, c, dbOk)
    \/ Tick(LockInstants)

SpecLock == Init /\ [][NextLock]_vars

\* ------------------------------------------------------------------------
\* Overlapping requests.  authorize awaits every store call and the password
\* comparison, and other requests run while it waits: each action below is
\* the code up to and including one store call.
\* ------------------------------------------------------------------------
Finish(r, path, ret) ==
    reqs' = [reqs EXCEPT ![r] =
                [ pc |-> "done", email |-> <<>>, password |-> <<>>,
                  found |-> FALSE, val |-> Null, path |-> path, ret |-> ret ]]

Goto(r, pc, found, val) ==
    reqs' = [reqs EXCEPT ![r].pc = pc, ![r].found = found, ![r].val = val]

\* lines 139-158: validation and the limiter, up to the first await
Start(r, ip, credentials) ==
    /\ reqs[r].pc = "idle"
    /\ \A q \in Slots : q < r => reqs[q].pc # "idle"
    /\ LET validatedFields == LoginSchema(credentials)
           limit == checkRateLimit(rateLimitStore, ip, now)
       IN  IF ~validatedFields.success
           THEN Finish(r, "invalid_input", Null) /\ UNCHANGED rateLimitStore
           ELSE /\ rateLimitStore' = limit.store
                /\ IF ~limit.ok
                   THEN Finish(r, "rate_limited", Null)
                   ELSE reqs' = [reqs EXCEPT
                                   ![r].pc = "lock_find",
                                   ![r].email = validatedFields.data.email,
                                   ![r].password = validatedFields.data.password]
    /\ UNCHANGED <<now, users, resp, windowCalls, token, access, projectMembers, seedRuns, userRows>>

\* lines 23-26: isAccountLocked reads the row
LockFind(r) ==
    /\ reqs[r].pc = "lock_find"
    /\ LET email == reqs[r].email IN
       IF email \in DOMAIN users
       THEN Goto(r, "lock_test", TRUE, users[email].lockedUntil)
       ELSE Goto(r, "lock_test", FALSE, Null)
    /\ UNCHANGED <<now, users, rateLimitStore, resp, windowCalls, token, access, projectMembers, seedRuns, userRows>>

\* lines 28-46 and 161-164: isAccountLocked tests the row it read, resets an
\* expired lock, and authorize returns if the account is locked
LockTest(r) ==
    /\ reqs[r].pc = "lock_test"
    /\ LET email == reqs[r].email
           user == [lockedUntil |-> reqs[r].val]
       IN  IF ~reqs[r].found
           THEN Goto(r, "find", FALSE, Null) /\ UNCHANGED users
           ELSE IF LockedNow(user, now)
           THEN Finish(r, "account_locked", Null) /\ UNCHANGED users
           ELSE IF LockExpired(user, now)
           THEN /\ users' = UpdateUser(users, email, ExpiredLockData)
                /\ Goto(r, "find", FALSE, Null)
           ELSE Goto(r, "find", FALSE, Null) /\ UNCHANGED users
    /\ UNCHANGED <<now, rateLimitStore, resp, windowCalls, token, access, projectMembers, seedRuns, userRows>>

\* lines 167-196: authorize reads the user and compares the password
Find(r) ==
    /\ reqs[r].pc = "find"
    /\ LET email == reqs[r].email IN
       IF email \notin DOMAIN users
       THEN Finish(r, "no_user", Null)
       ELSE IF ~bcryptCompare(reqs[r].password, users[email].passwordHash)
       THEN Goto(r, "failed_find", FALSE, Null)
       ELSE Goto(r, "success_update", TRUE, users[email].id)
    /\ UNCHANGED <<now, users, rateLimitStore, resp, windowCalls, token, access, projectMembers, seedRuns, userRows>>

\* lines 53-58: handleFailedLogin reads the counter
FailedFind(r) ==
    /\ reqs[r].pc = "failed_find"
    /\ LET email == reqs[r].email IN
       IF email \in DOMAIN users
       THEN Goto(r, "failed_update", TRUE, users[email].failedLoginAttempts)
       ELSE Finish(r, "bad_password", Null)
    /\ UNCHANGED <<now, users, rateLimitStore, resp, windowCalls, token, access, projectMembers, seedRuns, userRows>>

\* lines 60-73: handleFailedLogin writes the counter it read, plus one
FailedUpdate(r) ==
    /\ reqs[r].pc = "failed_update"
    /\ users' = UpdateUser(users, reqs[r].email, FailedLoginData(reqs[r].val, now))
    /\ Finish(r, "bad_password", Null)
    /\ UNCHANGED <<now, rateLimitStore, resp, windowCalls, token, access, projectMembers, seedRuns, userRows>>

\* lines 199-207: handleSuccessfulLogin, and the user is returned
SuccessUpdate(r) ==
    /\ reqs[r].pc = "success_update"
    /\ users' = handleSuccessfulLogin(users, reqs[r].email, now)
    /\ Finish(r, "success", reqs[r].val)
    /\ UNCHANGED <<now, rateLimitStore, resp, windowCalls, token, access, projectMembers, seedRuns, userRows>>

\* lines 208-211: the store call the request waits for throws
StoreThrows(r) ==
    /\ reqs[r].pc \in {"lock_find", "find", "failed_find", "failed_update",
                       "success_update"}
    /\ Finish(r, "error", Null)
    /\ UNCHANGED <<now, users, rateLimitStore, resp, windowCalls, token, access, projectMembers, seedRuns, userRows>>

InitConc ==
    /\ now = 0
    /\ users = (AliceEmail :>
                  [NewUser(1, GoodPassword, "EMPLOYEE")
                      EXCEPT !.failedLoginAttempts = InitialAttempts])
    /\ rateLimitStore = << >>
    /\ resp = NoResp
    /\ windowCalls = [ip \in IPs |-> 0]
    /\ reqs = [r \in Slots |-> IdleReq]
    /\ token = NoToken
    /\ access = NoAccess
    /\ projectMembers = {}
    /\ seedRuns = [r \in SeedRuns |-> IdleRun]
    /\ userRows = {}

NextConc ==
    \/ \E r \in Slots, ip \in LockIPs, c \in Credentials : Start(r, ip, c)
    \/ \E r \in Slots : LockFind(r)
    \/ \E r \in Slots : LockTest(r)
    \/ \E r \in Slots : Find(r)
    \/ \E r \in Slots : FailedFind(r)
    \/ \E r \in Slots : FailedUpdate(r)
    \/ \E r \in Slots : SuccessUpdate(r)
    \/ \E r \in Slots : StoreThrows(r)
    \/ Tick(ConcInstants)

SpecConc == InitConc /\ [][NextConc]_vars

\* ------------------------------------------------------------------------
\* Signed-in use: the session token, the routes behind the middleware, the
\* role and permission helpers
\* ------------------------------------------------------------------------
AccessInstants == {0, 60, 120, 780, 1440, 1500}

CarolEmail == <<"c", "@", "x", ".", "c", "o">>
RootEmail == <<"r", "@", "x", ".", "c", "o">>

InitAccess ==
    /\ now = 0
    /\ users = (AliceEmail :> NewUser(1, GoodPassword, "EMPLOYEE"))
               @@ (CarolEmail :> NewUser(2, GoodPassword, "ADMIN"))
               @@ (RootEmail :> NewUser(3, GoodPassword, "ROOT_ADMIN"))
    /\ rateLimitStore = << >>
    /\ resp = NoResp
    /\ windowCalls = [ip \in IPs |-> 0]
    /\ reqs = [r \in Slots |-> IdleReq]
    /\ token = NoToken
    /\ access = NoAccess
    /\ projectMembers \in MemberTables
    /\ seedRuns = [r \in SeedRuns |-> IdleRun]
    /\ userRows = {}

\* authorize has returned the user of this e-mail: the jwt callback puts
\* role and id into a new token
SignIn(email) ==
    /\ email \in DOMAIN users
    /\ token' = encode(jwt(NoToken, [id |-> users[email].id,
                                     role |-> users[email].role]),
                       now, JWT_MAX_AGE)
    /\ access' = [kind |-> "signin", id |-> users[email].id]
    /\ UNCHANGED <<now, users, rateLimitStore, resp, windowCalls, reqs,
                   projectMembers, seedRuns, userRows>>

\* the session is read (getServerSession, /api/auth/session)
SessionRead ==
    /\ token # NoToken
    /\ token' = refresh(token, now)
    /\ access' = [kind |-> "session", at |-> now, old |-> token,
                  valid |-> Valid(token, now),
                  renewed |-> refresh(token, now) \notin {token, NoToken},
                  session |-> session(refresh(token, now))]
    /\ UNCHANGED <<now, users, rateLimitStore, resp, windowCalls, reqs,
                   projectMembers, seedRuns, userRows>>

\* a request for pathname passes through the middleware
Request(pathname) ==
    /\ access' = [kind |-> "route", pathname |-> pathname,
                  tok |-> decode(token, now),
                  result |-> withAuth(decode(token, now), pathname)]
    /\ UNCHANGED <<now, users, rateLimitStore, resp, windowCalls, reqs,
                   token, projectMembers, seedRuns, userRows>>

\* hasRoleOrHigher(session.user.role, requiredRole)
CheckRole(requiredRole) ==
    /\ Valid(token, now)
    /\ access' = [kind |-> "role", role |-> session(token).role,
                  required |-> requiredRole,
                  granted |-> hasRoleOrHigher(session(token).role, requiredRole)]
    /\ UNCHANGED <<now, users, rateLimitStore, resp, windowCalls, reqs,
                   token, projectMembers, seedRuns, userRows>>

\* getUserPermissions(session.user.role)
Permissions ==
    /\ Valid(token, now)
    /\ access' = [kind |-> "permissions", id |-> session(token).id,
                  role |-> session(token).role,
                  permissions |-> getUserPermissions(session(token).role)]
    /\ UNCHANGED <<now, users, rateLimitStore, resp, windowCalls, reqs,
                   token, projectMembers, seedRuns, userRows>>

\* the signed-in user asks for a project: canAccessProjects decides
AccessProject(project) ==
    /\ Valid(token, now)
    /\ access' = [kind |-> "project", id |-> session(token).id,
                  role |-> session(token).role, project |-> project,
                  granted |-> getUserPermissions(session(token).role).canAccessProjects]
    /\ UNCHANGED <<now, users, rateLimitStore, resp, windowCalls, reqs,
                   token, projectMembers, seedRuns, userRows>>

\* a page or handler open to administrators runs its guard
AdminGuard(guard) ==
    /\ guard \in {"requireAdmin", "POST", "GET"} \/ Valid(token, now)
    /\ access' =
         [kind |-> "admin_guard", guard |-> guard,
          sess |-> getCurrentSession(token, now),
          granted |->
            CASE guard = "isAdmin" -> isAdmin(getCurrentSession(token, now).role)
              [] guard = "requireAdmin" ->
                   requireAdmin(getCurrentSession(token, now)).redirect = "none"
              [] guard = "POST" -> POST(getCurrentSession(token, now)) = 0
              [] guard = "GET" -> GET(getCurrentSession(token, now)) = 0]
    /\ UNCHANGED <<now, users, rateLimitStore, resp, windowCalls, reqs,
                   token, projectMembers, seedRuns, userRows>>

\* a page open to the Root Admin runs its guard
RootGuard(guard) ==
    /\ guard = "requireRootAdmin" \/ Valid(token, now)
    /\ access' =
         [kind |-> "root_guard", guard |-> guard,
          sess |-> getCurrentSession(token, now),
          granted |->
            CASE guard = "isRootAdmin" ->
                   isRootAdmin(getCurrentSession(token, now).role)
              [] guard = "requireRootAdmin" ->
                   requireRootAdmin(getCurrentSession(token, now)).redirect = "none"]
    /\ UNCHANGED <<now, users, rateLimitStore, resp, windowCalls, reqs,
                   token, projectMembers, seedRuns, userRows>>

\* hasRole, requireRole or validateApiRole is called with a required role
RoleGuard(guard, requiredRole) ==
    /\ guard \in {"requireRole", "validateApiRole"} \/ Valid(token, now)
    /\ access' =
         [kind |-> "role_guard", guard |-> guard,
          sess |-> getCurrentSession(token, now),
          required |-> requiredRole,
          result |->
            CASE guard = "hasRole" ->
                   IF hasRole(getCurrentSession(token, now).role, requiredRole)
                   THEN "true" ELSE "false"
              [] guard = "requireRole" ->
                   requireRole(getCurrentSession(token, now), requiredRole).redirect
              [] guard = "validateApiRole" ->
                   IF validateApiRole(getCurrentSession(token, now),
                                      requiredRole).status = 200
                   THEN "200"
                   ELSE IF validateApiRole(getCurrentSession(token, now),
                                           requiredRole).status = 401
                   THEN "401" ELSE "403"]
    /\ UNCHANGED <<now, users, rateLimitStore, resp, windowCalls, reqs,
                   token, projectMembers, seedRuns, userRows>>

\* the role column of the user's row is given another value in the store,
\* by a write that does not go through the session
ChangeRole(email, role) ==
    /\ email \in DOMAIN users
    /\ users' = [users EXCEPT ![email].role = role]
    /\ UNCHANGED <<now, rateLimitStore, resp, windowCalls, reqs, token, access,
                   projectMembers, seedRuns, userRows>>

NextAccess ==
    \/ \E email \in {AliceEmail, CarolEmail, RootEmail} : SignIn(email)
    \/ SessionRead
    \/ \E pathname \in Paths : Request(pathname)
    \/ \E requiredRole \in Roles : CheckRole(requiredRole)
    \/ Permissions
    \/ \E project \in Projects : AccessProject(project)
    \/ \E guard \in AdminGuards : AdminGuard(guard)
    \/ \E guard \in RootGuards : RootGuard(guard)
    \/ \E guard \in RoleGuards, requiredRole \in RequiredRoles :
          RoleGuard(guard, requiredRole)
    \/ \E role \in Roles : ChangeRole(AliceEmail, role)
    \/ Tick(AccessInstants)

SpecAccess == InitAccess /\ [][NextAccess]_vars

\* ------------------------------------------------------------------------
\* Validation on its own: the schemas applied to e-mails with and without
\* surrounding blanks and capitals, and to passwords of several lengths
\* ------------------------------------------------------------------------
Pads == { <<>>, <<" ">> }

EmailCores ==
    { AliceEmail,
      <<"A", "@", "x", ".", "c", "o">>,
      <<"a", "@", "x">>,
      <<"a">>,
      <<>> }

EmailInputs == { pre \o core \o post : pre \in Pads, core \in EmailCores, post \in Pads }

PasswordLengths == {0, 1, 3, 5, 6, 128, 129}

PasswordOfLength(n) == [i \in 1..n |-> "p"]

\* LoginSchema.safeParse(credentials), as authorize calls it
ParseLogin(credentials) ==
    /\ access' = [kind |-> "login_parse", input |-> credentials,
                  result |-> LoginSchema(credentials)]
    /\ UNCHANGED <<now, users, rateLimitStore, resp, windowCalls, reqs,
                   token, projectMembers, seedRuns, userRows>>

\* EmailSchema.safeParse(input)
ParseEmail(input) ==
    /\ access' = [kind |-> "email_parse", input |-> input,
                  result |-> EmailSchema(input)]
    /\ UNCHANGED <<now, users, rateLimitStore, resp, windowCalls, reqs,
                   token, projectMembers, seedRuns, userRows>>

NextValidate ==
    \/ \E e \in EmailInputs, n \in PasswordLengths :
          ParseLogin([email |-> e, password |-> PasswordOfLength(n)])
    \/ \E e \in EmailInputs : ParseEmail(e)

SpecValidate == Init /\ [][NextValidate]_vars

\* ------------------------------------------------------------------------
\* Runs of the seed script.  main awaits the connection, the schema check
\* and every query, and another run of the script may act in between: each
\* action below is the code up to and including one of them.
\* ------------------------------------------------------------------------
InitSeed ==
    /\ now = 0
    /\ users = (AliceEmail :> NewUser(1, GoodPassword, "EMPLOYEE"))
    /\ rateLimitStore = << >>
    /\ resp = NoResp
    /\ windowCalls = [ip \in IPs |-> 0]
    /\ reqs = [r \in Slots |-> IdleReq]
    /\ token = NoToken
    /\ access = NoAccess
    /\ projectMembers = {}
    /\ seedRuns = [r \in SeedRuns |-> IdleRun]
    /\ userRows \in SeedTables

SeedFrame ==
    UNCHANGED <<now, users, rateLimitStore, resp, windowCalls, reqs,
                token, access, projectMembers>>

\* the run ends: the SeedExecutionLog's action and error
SeedDone(r, action, error) ==
    seedRuns' = [seedRuns EXCEPT ![r].pc = "done", ![r].action = action,
                                 ![r].error = error]

\* main() begins
SeedStart(r) ==
    /\ seedRuns[r].pc = "idle"
    /\ seedRuns' = [seedRuns EXCEPT ![r].pc = "connect"]
    /\ UNCHANGED userRows
    /\ SeedFrame

\* verifyDatabaseConnection: the loop test and one attempt, which the
\* database answers (ok) or not
Connect(r, ok) ==
    /\ seedRuns[r].pc = "connect"
    /\ IF ~(seedRuns[r].retries < maxRetries)
       THEN seedRuns' = [seedRuns EXCEPT ![r].pc = "schema"]
       ELSE IF ok
       THEN seedRuns' = [seedRuns EXCEPT ![r].pc = "schema",
                                         ![r].attempts = @ + 1]
       ELSE LET failed == connectFailed(seedRuns[r].retries) IN
            seedRuns' = [seedRuns EXCEPT
                            ![r].attempts = @ + 1,
                            ![r].retries = failed.retries,
                            ![r].pc = IF failed.throws THEN "done" ELSE "backoff",
                            ![r].action = IF failed.throws THEN "error" ELSE @,
                            ![r].error = IF failed.throws
                                         THEN "connection_failed" ELSE @]
    /\ UNCHANGED userRows
    /\ SeedFrame

\* the wait before the next attempt is over
Backoff(r) ==
    /\ seedRuns[r].pc = "backoff"
    /\ seedRuns' = [seedRuns EXCEPT ![r].pc = "connect", ![r].waits = @ + 1]
    /\ UNCHANGED userRows
    /\ SeedFrame

\* verifySchemaCompatibility
VerifySchema(r) ==
    /\ seedRuns[r].pc = "schema"
    /\ seedRuns' = [seedRuns EXCEPT ![r].pc = "check"]
    /\ UNCHANGED userRows
    /\ SeedFrame

\* seedRootAdmin: checkExistingRootAdmin and what follows it
CheckExisting(r) ==
    /\ seedRuns[r].pc = "check"
    /\ IF findRootAdmin(userRows)
       THEN SeedDone(r, "skip", "none")
       ELSE seedRuns' = [seedRuns EXCEPT ![r].pc = "tx_find", ![r].inTx = TRUE]
    /\ UNCHANGED userRows
    /\ SeedFrame

\* createRootAdmin: the check inside the transaction
TxFind(r) ==
    /\ seedRuns[r].pc = "tx_find"
    /\ IF findRootAdmin(userRows)
       THEN SeedDone(r, "error", "created_by_another_process")
       ELSE seedRuns' = [seedRuns EXCEPT ![r].pc = "tx_create"]
    /\ UNCHANGED userRows
    /\ SeedFrame

\* createRootAdmin: user.create and the commit
TxCreate(r) ==
    /\ seedRuns[r].pc = "tx_create"
    /\ LET created == createUser(userRows,
                         [id |-> r, email |-> ADMIN_EMAIL, role |-> "ROOT_ADMIN"])
       IN  /\ userRows' = created.rows
           /\ IF created.ok
              THEN SeedDone(r, "create", "none")
              ELSE SeedDone(r, "error", "unique_constraint")
    /\ SeedFrame

SeedStep(r) ==
    \/ SeedStart(r)
    \/ \E ok \in BOOLEAN : Connect(r, ok)
    \/ Backoff(r)
    \/ VerifySchema(r)
    \/ CheckExisting(r)
    \/ TxFind(r)
    \/ TxCreate(r)

NextSeed == \E r \in SeedRuns : SeedStep(r)

SpecSeed == InitSeed /\ [][NextSeed]_vars

\* every run that can take a step does so in the end
SpecSeedFair == SpecSeed /\ \A r \in SeedRuns : WF_vars(SeedStep(r))

\* ------------------------------------------------------------------------
\* Properties
\* ------------------------------------------------------------------------
Min(a, b) == IF a < b THEN a ELSE b

\* a step that handles a request from ip: of the two kinds of step, Tick
\* moves the clock and authorize does not
AuthorizeStep(ip) == now' = now /\ resp'.ip = ip

\* C1: per key, the limiter admits exactly the first 5 calls of a window and
\* denies every further call of that window, whatever the e-mails, the
\* outcomes and the other keys; the first call after the stored reset instant
\* is admitted and starts a fresh window with count 1.
C1_AdmitsFirstFivePerWindow ==
    /\ [](\A ip \in IPs : RateKey(ip) \in DOMAIN rateLimitStore =>
            rateLimitStore[RateKey(ip)].attempts = Min(windowCalls[ip], 5))
    /\ [](resp.rateChecked =>
            (resp.path = "rate_limited" <=> windowCalls[resp.ip] > 5))
    /\ [][\A ip \in IPs :
            (AuthorizeStep(ip) /\ resp'.rateChecked
                /\ ~InWindow(rateLimitStore, ip, now))
            => /\ resp'.path # "rate_limited"
               /\ rateLimitStore'[RateKey(ip)] =
                      [attempts |-> 1, resetTime |-> now + 5]]_vars

\* a sixth call was denied at the last instant of its window while the other
\* key, past its first window, began a fresh one
C1_Witness ==
    /\ now = 10
    /\ resp.path = "rate_limited"
    /\ windowCalls[resp.ip] = 6
    /\ \E ip \in IPs \ {resp.ip} :
          /\ RateKey(ip) \in DOMAIN rateLimitStore
          /\ rateLimitStore[RateKey(ip)] = [attempts |-> 1, resetTime |-> 15]

\* C2: a denied call leaves the key's count and reset instant as they were,
\* and any call leaves the entries of all other keys unchanged.
C2_DeniedCallChangesNothing ==
    [][\A ip \in IPs : AuthorizeStep(ip) =>
          /\ (resp'.path = "rate_limited" => rateLimitStore' = rateLimitStore)
          /\ \A k \in (DOMAIN rateLimitStore \cup DOMAIN rateLimitStore') \ {RateKey(ip)} :
                /\ k \in DOMAIN rateLimitStore
                /\ k \in DOMAIN rateLimitStore'
                /\ rateLimitStore'[k] = rateLimitStore[k]]_vars

\* a call was denied after the window's first instant, with the other key
\* holding an entry too
C2_Witness ==
    /\ resp.path = "rate_limited"
    /\ now = 5
    /\ rateLimitStore[RateKey(resp.ip)] = [attempts |-> 5, resetTime |-> 5]
    /\ \A ip \in IPs : RateKey(ip) \in DOMAIN rateLimitStore

\* C3: every login request, malformed ones included, is either denied by the
\* limiter or consumes one attempt of its source key's window.
C3_EveryRequestConsumesAnAttempt ==
    [][\A ip \in IPs : AuthorizeStep(ip) =>
          \/ resp'.path = "rate_limited"
          \/ /\ RateKey(ip) \in DOMAIN rateLimitStore'
             /\ rateLimitStore'[RateKey(ip)].attempts =
                    IF InWindow(rateLimitStore, ip, now)
                    THEN rateLimitStore[RateKey(ip)].attempts + 1
                    ELSE 1]_vars

\* C4: a request the limiter denies reads no user record, compares no
\* password, writes no account field and returns null.
C4_RateLimitedTouchesNoAccount ==
    [][\A ip \in IPs : (AuthorizeStep(ip) /\ resp'.path = "rate_limited") =>
          /\ users' = users
          /\ resp'.reads = 0
          /\ resp'.writes = 0
          /\ ~resp'.compared
          /\ resp'.ret = Null]_vars

\* a request was denied by the limiter while the account was locked
C4_Witness ==
    /\ resp.path = "rate_limited"
    /\ users[AliceEmail].lockedUntil # Null
    /\ now < users[AliceEmail].lockedUntil

Alice == users[AliceEmail]

AliceGood == [email |-> AliceEmail, password |-> GoodPassword]
AliceBad == [email |-> AliceEmail, password |-> BadPassword]

\* a request for Alice's account from ip that the limiter admits and during
\* which the store answers
AliceAttempt(ip, c) == authorize(ip, c, TRUE) /\ resp'.path # "rate_limited"

\* C5: from counter 0 and no lockout, each wrong password adds exactly one;
\* below ten failures the account is not locked; the tenth failure sets the
\* counter to 10 and lockout-expiry to that instant plus one hour (60 min);
\* from then on, at every instant before the expiry, the account is
\* reported locked and its counter and lockout-expiry stay as they are.
C5_LockAtTenthFailure ==
    /\ [](Alice.failedLoginAttempts < 10 => Alice.lockedUntil = Null)
    /\ [][(now' = now /\ resp'.path = "bad_password" /\ Alice.lockedUntil = Null)
            => /\ Alice'.failedLoginAttempts = Alice.failedLoginAttempts + 1
               /\ Alice'.failedLoginAttempts <= 10
               /\ Alice'.failedLoginAttempts = 10 => Alice'.lockedUntil = now + 60
               /\ Alice'.failedLoginAttempts < 10 => Alice'.lockedUntil = Null]_vars
    /\ [][(Alice.lockedUntil # Null /\ now < Alice.lockedUntil)
            => /\ Alice'.failedLoginAttempts = Alice.failedLoginAttempts
               /\ Alice'.lockedUntil = Alice.lockedUntil
               /\ \A ip \in IPs, c \in {AliceGood, AliceBad} :
                     AliceAttempt(ip, c) => resp'.path = "account_locked"]_vars

\* locked by the tenth failure at minute 10, the account is reported locked
\* at minute 60, ten minutes before the expiry
C5_Witness ==
    /\ Alice.failedLoginAttempts = 10
    /\ Alice.lockedUntil = 70
    /\ now = 60
    /\ resp.path = "account_locked"

\* C6: right after an attempt that ends in success the account has counter
\* 0, no lockout-expiry and last-login equal to the time of the attempt.
C6_SuccessResetsAccount ==
    [][(now' = now /\ resp'.path = "success")
        => /\ Alice'.failedLoginAttempts = 0
           /\ Alice'.lockedUntil = Null
           /\ Alice'.lastLogin = now
           /\ resp'.ret = Alice.id]_vars

\* a success at minute 70 on the account that ten failures had locked until
\* then: the request wrote twice, the lazy expiry and the success reset
C6_Witness ==
    /\ resp.path = "success"
    /\ resp.writes = 2
    /\ now = 70
    /\ Alice.lastLogin = 70
    /\ Alice.failedLoginAttempts = 0
    /\ Alice.lockedUntil = Null

\* C7: an attempt with the right password on an account whose
\* lockout-expiry is in the future is rejected as locked, without a password
\* comparison and without a change of counter or lockout-expiry.
C7_LockedRejectsRightPassword ==
    [][\A ip \in IPs :
          (AliceAttempt(ip, AliceGood)
              /\ Alice.lockedUntil # Null /\ now < Alice.lockedUntil)
          => /\ resp'.path = "account_locked"
             /\ resp'.ret = Null
             /\ ~resp'.compared
             /\ resp'.writes = 0
             /\ users' = users]_vars

\* an attempt was rejected as locked before the expiry
C7_Witness ==
    /\ resp.path = "account_locked"
    /\ ~resp.compared
    /\ Alice.lockedUntil # Null
    /\ now < Alice.lockedUntil
    /\ Alice.failedLoginAttempts = 10

\* C8: isAccountLocked returns true iff lockout-expiry is set and strictly
\* in the future; with lockout-expiry set and not in the future it returns
\* false and writes counter 0 and lockout-expiry null, so that the next wrong
\* password leaves the counter at 1; with lockout-expiry null it returns
\* false and writes nothing.
C8_IsLockedLazyExpiry ==
    /\ [](LET r == isAccountLocked(users, AliceEmail, now) IN
            /\ r.locked <=> (Alice.lockedUntil # Null /\ now < Alice.lockedUntil)
            /\ (Alice.lockedUntil # Null /\ now >= Alice.lockedUntil)
                  => /\ r.writes = 1
                     /\ r.users[AliceEmail].failedLoginAttempts = 0
                     /\ r.users[AliceEmail].lockedUntil = Null
            /\ Alice.lockedUntil = Null => (r.writes = 0 /\ r.users = users))
    /\ [][\A ip \in IPs :
            (AliceAttempt(ip, AliceBad)
                /\ Alice.lockedUntil # Null /\ now >= Alice.lockedUntil)
            => /\ resp'.path = "bad_password"
               /\ resp'.writes = 2
               /\ Alice'.failedLoginAttempts = 1
               /\ Alice'.lockedUntil = Null]_vars

\* the lockout that began at minute 10 has expired and a wrong password at
\* minute 70 left the counter at 1
C8_Witness ==
    /\ now = 70
    /\ resp.path = "bad_password"
    /\ resp.writes = 2
    /\ Alice.failedLoginAttempts = 1
    /\ Alice.lockedUntil = Null

\* C9: in every reachable state of every account, under any interleaving of
\* lock checks, failed attempts and successful logins, lockout-expiry is
\* non-null only if the failed-attempt counter is at least 10.
C9_LockoutOnlyAtThreshold ==
    \A e \in DOMAIN users :
        users[e].lockedUntil # Null => users[e].failedLoginAttempts >= 10

\* the account is locked while another request, past its lock check, is
\* about to write
C9_Witness ==
    /\ Alice.lockedUntil # Null
    /\ Alice.failedLoginAttempts >= 10
    /\ \E r \in Slots : reqs[r].pc \in {"failed_update", "success_update"}

\* the requests that have ended in a wrong password
FailedRequests == {r \in Slots : reqs[r].pc = "done" /\ reqs[r].path = "bad_password"}

\* C10: when k wrong-password attempts on the unlocked account with counter
\* c, c + k at most 10, have all finished, in whatever interleaving, the
\* stored counter is c + k.
C10_NoLostIncrement ==
    ( /\ \A r \in Slots : reqs[r].pc \in {"idle", "done"}
      /\ \A r \in Slots : reqs[r].path \in {"none", "bad_password"}
      /\ InitialAttempts + Cardinality(FailedRequests) <= 10 )
    => Alice.failedLoginAttempts = InitialAttempts + Cardinality(FailedRequests)

BobBad == [email |-> BobEmail, password |-> BadPassword]

\* C11: a request for an email that has no account and a request with a
\* wrong password for the existing, unlocked account return the same value
\* to the caller (null): in every reachable state the two requests, sent
\* from the same address, get the same answer, and every request that ends
\* on either path has returned null.
C11_UnknownEmailSameAsWrongPassword ==
    /\ [](\A ip \in LockIPs :
            LET unknown == authorizeResult(users, rateLimitStore, now, ip, BobBad, TRUE).resp
                wrong == authorizeResult(users, rateLimitStore, now, ip, AliceBad, TRUE).resp
            IN  ~LockedNow(Alice, now) => unknown.ret = wrong.ret)
    /\ [][(now' = now /\ resp'.path \in {"no_user", "bad_password"})
            => resp'.ret = Null]_vars

\* an unknown email was turned away while the account, with failures on its
\* counter, was not locked
C11_Witness ==
    /\ resp.path = "no_user"
    /\ resp.ret = Null
    /\ Alice.failedLoginAttempts >= 1
    /\ Alice.lockedUntil = Null

\* C13: a request whose normalized email matches no account writes nothing
\* to the user table: every row is the same before and after it.
C13_UnknownEmailWritesNothing ==
    [][\A ip \in LockIPs, c \in Credentials, dbOk \in BOOLEAN :
          ( /\ authorize(ip, c, dbOk)
            /\ LoginSchema(c).success
            /\ LoginSchema(c).data.email \notin DOMAIN users )
          => /\ users' = users
             /\ resp'.writes = 0]_vars

\* an unknown email was looked up at minute 70, when the lock of the one
\* account had expired, and the expired lock is still in its row
C13_Witness ==
    /\ resp.path = "no_user"
    /\ resp.writes = 0
    /\ now = 70
    /\ Alice.lockedUntil = 70
    /\ Alice.failedLoginAttempts = 10

\* C14: a request during which the user store fails gives the caller
\* something other than the null that reports a wrong password, an unknown
\* email, a locked account or a denied request.
C14_StoreFailureIsDistinct ==
    resp.path = "error" => resp.ret # Null

\* the ranks the role order is stated with
Rank(role) ==
    CASE role = "EMPLOYEE" -> 1
      [] role = "ADMIN" -> 2
      [] role = "ROOT_ADMIN" -> 3

\* C15: hasRoleOrHigher(a, r) is true iff rank(a) >= rank(r) with
\* EMPLOYEE=1 < ADMIN=2 < ROOT_ADMIN=3, for all roles and for every check
\* made during a session; it is reflexive, transitive and total,
\* hasRoleOrHigher(ROOT_ADMIN, ADMIN) is true and
\* hasRoleOrHigher(EMPLOYEE, ADMIN) is false.
C15_HasRoleOrHigherIsRankOrder ==
    /\ \A a \in Roles, r \in Roles :
          hasRoleOrHigher(a, r) <=> Rank(a) >= Rank(r)
    /\ \A x \in Roles : hasRoleOrHigher(x, x)
    /\ \A x \in Roles, y \in Roles, z \in Roles :
          (hasRoleOrHigher(x, y) /\ hasRoleOrHigher(y, z)) => hasRoleOrHigher(x, z)
    /\ \A x \in Roles, y \in Roles :
          hasRoleOrHigher(x, y) \/ hasRoleOrHigher(y, x)
    /\ hasRoleOrHigher("ROOT_ADMIN", "ADMIN")
    /\ ~hasRoleOrHigher("EMPLOYEE", "ADMIN")
    /\ access.kind = "role" =>
          (access.granted <=> Rank(access.role) >= Rank(access.required))

\* an employee's session asked for ADMIN and was refused
C15_Witness ==
    /\ access.kind = "role"
    /\ access.role = "EMPLOYEE"
    /\ access.required = "ADMIN"
    /\ ~access.granted

\* the capability table as stated, in the order view dashboard, access
\* projects, create projects, manage users, system settings, delete
\* projects
Capabilities(dashboard, access_, create, manage, settings, delete) ==
    [ canViewDashboard |-> dashboard,
      canAccessProjects |-> access_,
      canCreateProjects |-> create,
      canManageUsers |-> manage,
      canAccessSystemSettings |-> settings,
      canDeleteProjects |-> delete ]

\* C16: getUserPermissions gives ROOT_ADMIN all six capabilities, ADMIN all
\* but access to system settings, EMPLOYEE only view-dashboard and
\* access-projects; the answer a session gets is the one of its role,
\* whoever the user is, whenever it asks and whatever the memberships are.
C16_PermissionTable ==
    /\ getUserPermissions("ROOT_ADMIN") = Capabilities(TRUE, TRUE, TRUE, TRUE, TRUE, TRUE)
    /\ getUserPermissions("ADMIN") = Capabilities(TRUE, TRUE, TRUE, TRUE, FALSE, TRUE)
    /\ getUserPermissions("EMPLOYEE") = Capabilities(TRUE, TRUE, FALSE, FALSE, FALSE, FALSE)
    /\ access.kind = "permissions" =>
          access.permissions =
             CASE access.role = "ROOT_ADMIN" -> Capabilities(TRUE, TRUE, TRUE, TRUE, TRUE, TRUE)
               [] access.role = "ADMIN" -> Capabilities(TRUE, TRUE, TRUE, TRUE, FALSE, TRUE)
               [] access.role = "EMPLOYEE" -> Capabilities(TRUE, TRUE, FALSE, FALSE, FALSE, FALSE)

\* an admin's session got its permissions, without the system settings
C16_Witness ==
    /\ access.kind = "permissions"
    /\ access.role = "ADMIN"
    /\ access.permissions.canManageUsers
    /\ ~access.permissions.canAccessSystemSettings

\* C17: an EMPLOYEE is granted access to a project only if project_members
\* holds a row for that user and that project.
C17_EmployeeNeedsMembership ==
    (access.kind = "project" /\ access.role = "EMPLOYEE" /\ access.granted)
        => <<access.id, access.project>> \in projectMembers

\* is the path one of the public ones?
Public(pathname) ==
    \/ pathname = PathRoot
    \/ startsWith(pathname, PrefixAuth)
    \/ startsWith(pathname, PrefixApiAuth)
    \/ pathname = PathUnauthorized

\* what C18 says of the answer to a request for pathname carrying tok
RouteRules(tok, pathname, result) ==
    /\ result = "next" =>
          /\ Public(pathname) \/ tok # NoToken
          /\ startsWith(pathname, PrefixAdmin) => tok.role \in AdminRoles
          /\ startsWith(pathname, PrefixSystem) => tok.role = "ROOT_ADMIN"
          /\ startsWith(pathname, PrefixApiAdmin) => tok.role \in AdminRoles
    /\ ( /\ startsWith(pathname, PrefixAdmin)
         /\ tok # NoToken /\ tok.role \notin AdminRoles )
          => result = "redirect:/unauthorized"
    /\ ( /\ startsWith(pathname, PrefixApiAdmin)
         /\ tok # NoToken /\ tok.role \notin AdminRoles )
          => result = "403"
    /\ (startsWith(pathname, PrefixAuth) /\ tok # NoToken)
          => result = "redirect:/dashboard"

\* C18: a request passes the middleware only if its path is public or it
\* carries a token, and under /admin only with role ADMIN or ROOT_ADMIN
\* (otherwise it is redirected to /unauthorized), under /system only with
\* ROOT_ADMIN, under /api/admin/ only with ADMIN or ROOT_ADMIN (otherwise
\* 403); a request under /api/, not under /api/auth/, without a token gets
\* 401; a request with a token for a page under /auth/ is redirected to
\* /dashboard.
C18_MiddlewareRules ==
    access.kind = "route" =>
        /\ RouteRules(access.tok, access.pathname, access.result)
        /\ ( /\ startsWith(access.pathname, PrefixApi)
             /\ ~startsWith(access.pathname, PrefixApiAuth)
             /\ access.tok = NoToken )
              => access.result = "401"

\* C19: a token issued at T carries expires-at T + 24 hours (1440 min); it
\* is accepted at every time up to and including T + 1440 and rejected at
\* every time after.
C19_SessionLifetime ==
    /\ [][(token' # token /\ token' # NoToken)
            => (token'.iat = now /\ token'.exp = now + 1440)]_vars
    /\ [](token # NoToken =>
            /\ token.exp = token.iat + 1440
            /\ now <= token.iat + 1440 => decode(token, now) = token
            /\ now > token.iat + 1440 => decode(token, now) = NoToken)
    /\ [](access.kind = "session" =>
            (access.valid <=> access.at <= access.old.iat + 1440))

\* the token issued at minute 0 was accepted at minute 1440
C19_Witness ==
    /\ access.kind = "session"
    /\ access.valid
    /\ access.at = 1440
    /\ access.old.iat = 0
    /\ now = 1440

\* a step that reads the session
SessionReadStep ==
    now' = now /\ users' = users /\ access'.kind = "session" /\ token # NoToken

\* was a new token minted in this step?
Renewed == token' # token /\ token' # NoToken

C21_EmailNormalizedBeforeUse ==
    /\ ( /\ access.kind = "login_parse"
         /\ IsEmail(trim(access.input.email))
         /\ Len(access.input.password) \in 1..128 )
          => /\ access.result.success
             /\ access.result.data.email = toLowerCase(trim(access.input.email))
    /\ (access.kind = "email_parse" /\ IsEmail(trim(access.input)))
          => /\ access.result.success
             /\ access.result.data = toLowerCase(trim(access.input))

\* C22: login validation rejects every password shorter than the minimum
\* of 6 characters, the empty one included.
C22_ShortPasswordRejected ==
    (access.kind = "login_parse" /\ Len(access.input.password) < 6)
        => ~access.result.success

\* the accounts with the configured admin e-mail
AdminRows == {row \in userRows : row.email = ADMIN_EMAIL}

\* the run went past the first check and ended without creating: it lost
\* to run q, which created the account
LostRaceTo(r, q) ==
    /\ q # r
    /\ seedRuns[r].inTx
    /\ seedRuns[r].action = "error"
    /\ seedRuns[q].action = "create"

Connected(r) == seedRuns[r].pc \in {"schema", "check", "tx_find", "tx_create"}
                \/ (seedRuns[r].pc = "done" /\ seedRuns[r].error # "connection_failed")

\* C24: verifyDatabaseConnection makes at most 3 attempts and always ends;
\* it returns at the first attempt that succeeds; when 3 attempts have
\* failed it raises 'Database connection failed after 3 attempts', with no
\* 4th attempt and no wait after the last failure.
C24_ConnectionRetriesBounded ==
    /\ [](\A r \in SeedRuns : seedRuns[r].attempts <= 3)
    /\ [](\A r \in SeedRuns :
            Connected(r) => /\ seedRuns[r].attempts = seedRuns[r].retries + 1
                            /\ seedRuns[r].waits = seedRuns[r].retries)
    /\ [](\A r \in SeedRuns :
            (seedRuns[r].attempts = 3 /\ seedRuns[r].retries = 3)
                => /\ seedRuns[r].pc = "done"
                   /\ seedRuns[r].error = "connection_failed"
                   /\ seedRuns[r].waits = 2)
    /\ [](\A r \in SeedRuns :
            seedRuns[r].error = "connection_failed"
                => (seedRuns[r].attempts = 3 /\ seedRuns[r].retries = 3))
    /\ [][\A r \in SeedRuns :
            seedRuns'[r].attempts # seedRuns[r].attempts
                => /\ seedRuns[r].pc = "connect"
                   /\ seedRuns'[r].attempts = seedRuns[r].attempts + 1
                   /\ seedRuns'[r].pc = "schema" => seedRuns'[r].retries = seedRuns[r].retries]_vars
    /\ \A r \in SeedRuns :
          (seedRuns[r].pc = "connect") ~> (seedRuns[r].pc \notin {"connect", "backoff"})

\* a run gave up after three failed attempts and two waits, while another
\* run got through at its third attempt
C24_Witness ==
    /\ seedRuns[1].error = "connection_failed"
    /\ seedRuns[1].attempts = 3
    /\ seedRuns[1].waits = 2
    /\ Connected(2)
    /\ seedRuns[2].attempts = 3
    /\ seedRuns[2].retries = 2

\* C25: however concurrent requests for the account interleave, no request
\* ends in success, and runs the success reset, at an instant at which the
\* stored lockout-expiry is in the future.
C25_NoSuccessWhileLocked ==
    [][\A r \in Slots :
          (reqs[r].pc = "success_update" /\ reqs'[r].path = "success")
          => ~(Alice.lockedUntil # Null /\ now < Alice.lockedUntil)]_vars

\* C26: in every reachable state, however the requests interleave, the
\* failed-attempt counter is between 0 and 10, and a lockout-expiry that is
\* set and still in the future is not moved to a later instant.
C26_CounterBoundedLockNotExtended ==
    /\ [](Alice.failedLoginAttempts >= 0 /\ Alice.failedLoginAttempts <= 10)
    /\ [][(Alice.lockedUntil # Null /\ now < Alice.lockedUntil
              /\ Alice'.lockedUntil # Null)
            => Alice'.lockedUntil <= Alice.lockedUntil]_vars

\* a token and a session carrying the role r
TokenOf(r) == [id |-> 1, role |-> r, iat |-> 0, exp |-> JWT_MAX_AGE]
SessionOf(r) == [id |-> 1, role |-> r]

\* C27: for every system role r the guards written as string comparisons
\* agree with the rank order: isAdmin, requireAdmin, the middleware checks
\* for /admin and /api/admin/ and the checks of the /api/admin/users
\* handlers grant exactly when hasRoleOrHigher(r, ADMIN); isRootAdmin,
\* requireRootAdmin and the middleware check for /system grant exactly when
\* hasRoleOrHigher(r, ROOT_ADMIN).  Stated for every role and for each guard
\* that has run.
C27_StringChecksAgreeWithRank ==
    /\ \A r \in Roles :
         /\ isAdmin(r) <=> hasRoleOrHigher(r, "ADMIN")
         /\ requireAdmin(SessionOf(r)).redirect = "none"
              <=> hasRoleOrHigher(r, "ADMIN")
         /\ POST(SessionOf(r)) = 0 <=> hasRoleOrHigher(r, "ADMIN")
         /\ GET(SessionOf(r)) = 0 <=> hasRoleOrHigher(r, "ADMIN")
         /\ \A pathname \in {PathAdmin, PathAdminUsers, PathApiAdmin} :
              middleware(TokenOf(r), pathname) = "next"
                <=> hasRoleOrHigher(r, "ADMIN")
         /\ isRootAdmin(r) <=> hasRoleOrHigher(r, "ROOT_ADMIN")
         /\ requireRootAdmin(SessionOf(r)).redirect = "none"
              <=> hasRoleOrHigher(r, "ROOT_ADMIN")
         /\ middleware(TokenOf(r), PathSystem) = "next"
              <=> hasRoleOrHigher(r, "ROOT_ADMIN")
    /\ (access.kind = "admin_guard" /\ access.sess # NoUser)
         => (access.granted <=> hasRoleOrHigher(access.sess.role, "ADMIN"))
    /\ (access.kind = "root_guard" /\ access.sess # NoUser)
         => (access.granted <=> hasRoleOrHigher(access.sess.role, "ROOT_ADMIN"))
    /\ (access.kind = "route" /\ access.tok # NoToken)
         => /\ (startsWith(access.pathname, PrefixAdmin)
                  \/ startsWith(access.pathname, PrefixApiAdmin))
                 => (access.result = "next"
                       <=> hasRoleOrHigher(access.tok.role, "ADMIN"))
            /\ startsWith(access.pathname, PrefixSystem)
                 => (access.result = "next"
                       <=> hasRoleOrHigher(access.tok.role, "ROOT_ADMIN"))

\* the Root Admin has passed isAdmin
C27_Witness ==
    /\ access.kind = "admin_guard"
    /\ access.guard = "isAdmin"
    /\ access.sess.role = "ROOT_ADMIN"
    /\ access.granted

\* the roles a required-role argument names
RequiredSet(requiredRole) ==
    IF requiredRole = Single("EMPLOYEE") THEN {"EMPLOYEE"}
    ELSE IF requiredRole = Single("ADMIN") THEN {"ADMIN"}
    ELSE IF requiredRole = Single("ROOT_ADMIN") THEN {"ROOT_ADMIN"}
    ELSE {"ROOT_ADMIN", "ADMIN"}

\* C28: hasRole, requireRole and validateApiRole grant exactly when the
\* user's role is one of the required roles, with no use of the rank order:
\* with the single required role ADMIN a ROOT_ADMIN user is denied (sent to
\* /unauthorized, or status 403), and with required EMPLOYEE both ADMIN and
\* ROOT_ADMIN are denied.
C28_ExactRoleMatch ==
    /\ \A r \in Roles, requiredRole \in RequiredRoles :
         /\ hasRole(r, requiredRole) <=> r \in RequiredSet(requiredRole)
         /\ requireRole(SessionOf(r), requiredRole).redirect =
              (IF r \in RequiredSet(requiredRole) THEN "none" ELSE "/unauthorized")
         /\ validateApiRole(SessionOf(r), requiredRole).status =
              (IF r \in RequiredSet(requiredRole) THEN 200 ELSE 403)
    /\ ~hasRole("ROOT_ADMIN", Single("ADMIN"))
    /\ requireRole(SessionOf("ROOT_ADMIN"), Single("ADMIN")).redirect = "/unauthorized"
    /\ validateApiRole(SessionOf("ROOT_ADMIN"), Single("ADMIN")).status = 403
    /\ \A r \in {"ADMIN", "ROOT_ADMIN"} :
         /\ ~hasRole(r, Single("EMPLOYEE"))
         /\ requireRole(SessionOf(r), Single("EMPLOYEE")).redirect = "/unauthorized"
         /\ validateApiRole(SessionOf(r), Single("EMPLOYEE")).status = 403
    /\ (access.kind = "role_guard" /\ access.sess # NoUser)
         => access.result =
              (IF access.sess.role \in RequiredSet(access.required)
               THEN CASE access.guard = "hasRole" -> "true"
                      [] access.guard = "requireRole" -> "none"
                      [] access.guard = "validateApiRole" -> "200"
               ELSE CASE access.guard = "hasRole" -> "false"
                      [] access.guard = "requireRole" -> "/unauthorized"
                      [] access.guard = "validateApiRole" -> "403")

\* the Root Admin has been refused by hasRole with the required role ADMIN
C28_Witness ==
    /\ access.kind = "role_guard"
    /\ access.guard = "hasRole"
    /\ access.sess.role = "ROOT_ADMIN"
    /\ access.required = Single("ADMIN")
    /\ access.result = "false"

\* the capabilities a permission record grants
Granted(permissions) == { c \in DOMAIN permissions : permissions[c] }

\* C29: the capability table is monotone in the role hierarchy: whenever
\* hasRoleOrHigher(a, r), every capability getUserPermissions(r) grants is
\* granted by getUserPermissions(a) too; and view-dashboard is granted for
\* every role.  Stated for every pair of roles and for the permissions each
\* session has been given.
C29_PermissionsMonotone ==
    /\ \A a \in Roles, r \in Roles :
         hasRoleOrHigher(a, r)
           => Granted(getUserPermissions(r)) \subseteq Granted(getUserPermissions(a))
    /\ \A r \in Roles : getUserPermissions(r).canViewDashboard
    /\ access.kind = "permissions"
         => /\ access.permissions.canViewDashboard
            /\ \A r \in Roles :
                 hasRoleOrHigher(access.role, r)
                   => Granted(getUserPermissions(r)) \subseteq Granted(access.permissions)

\* the Root Admin's session got its permissions, which hold all an admin's
C29_Witness ==
    /\ access.kind = "permissions"
    /\ access.role = "ROOT_ADMIN"
    /\ Granted(getUserPermissions("ADMIN")) \subseteq Granted(access.permissions)
    /\ Granted(access.permissions) # Granted(getUserPermissions("ADMIN"))

\* the step is a sign-in
SignInStep == access'.kind = "signin" /\ now' = now /\ users' = users

\* C30: the role and id a session carries are fixed at sign-in.  The jwt
\* callback writes role and id when a user object is present and leaves the
\* token as it is otherwise; no step but a sign-in changes the role or id of
\* a token that stays in use, a change of the role in the store leaves the
\* token untouched, and every session read shows exactly the role and id of
\* the token it was made from.
C30_SessionRoleFixedAtSignIn ==
    /\ [](\A r \in Roles, u \in Roles :
            /\ jwt(TokenOf(r), NoUser) = TokenOf(r)
            /\ jwt(TokenOf(r), [id |-> 2, role |-> u]).role = u
            /\ jwt(TokenOf(r), [id |-> 2, role |-> u]).id = 2
            /\ session(TokenOf(r)) = [id |-> 1, role |-> r])
    /\ [][(token # NoToken /\ token' # NoToken /\ ~SignInStep)
            => (token'.role = token.role /\ token'.id = token.id)]_vars
    /\ [][users' # users => token' = token]_vars
    /\ []((access.kind = "session" /\ access.valid)
            => access.session = [id |-> access.old.id, role |-> access.old.role])

\* a renewed session still shows EMPLOYEE for the account whose role in the
\* store is ROOT_ADMIN by now
C30_Witness ==
    /\ access.kind = "session"
    /\ access.valid
    /\ access.renewed
    /\ access.session = [id |-> 1, role |-> "EMPLOYEE"]
    /\ users[AliceEmail].role = "ROOT_ADMIN"

TypeOK ==
    /\ now \in Instants \cup LockInstants \cup AccessInstants
    /\ \A e \in DOMAIN users : users[e].failedLoginAttempts \in Nat

====
